---------------------------- MODULE Spec2Model ----------------------------
(***************************************************************************)
(* Transaction and Block codecs, signature hashing, merkle root and        *)
(* proof-of-work check of yacoinjs-lib (src/ts_src/block.ts), and the      *)
(* TransactionBuilder mutation-legality protocol.                          *)
(*                                                                         *)
(* Representation                                                          *)
(*  - a Buffer is a sequence of bytes 0..255;                              *)
(*  - a JavaScript number read from an unsigned 32- or 64-bit field is     *)
(*    kept as its little-endian base-256 digits without high zero digits   *)
(*    (so <<>> is 0 and <<255,255,255,255>> is 0xffffffff): these values   *)
(*    exceed the integers TLC computes with;                               *)
(*  - a signed 32-bit number (version, hashType) and a CompactSize count   *)
(*    are integers;                                                        *)
(*  - hash256 is an injective symbolic constructor: the digest of b is b   *)
(*    between the two markers 256 and 257, which are no bytes.             *)
(***************************************************************************)
EXTENDS Integers, Sequences, FiniteSets, TLC

VARIABLES
  wire,      \* codec: the bytes handed to Transaction.fromBuffer
  enc,       \* codec: how wire was produced (a label, for the witnesses)
  tx,        \* codec: result of Transaction.fromBuffer
  out,       \* codec: result of tx.toBuffer()
  blen,      \* codec: result of tx.byteLength()
  txid,      \* codec: result of tx.getHash()
  stx,       \* signing: the live transaction hashForSignature is called on
  twin,      \* signing: a transaction equal to stx but for its outputs
  call,      \* signing: the arguments of the last hashForSignature call
  digest,    \* signing: what the last call returned on stx
  digest2,   \* signing: what the same call returned on twin
  bwire,     \* block: the bytes handed to Block.fromBuffer
  benc,      \* block: how bwire was produced (a label, for the witnesses)
  block,     \* block: result of Block.fromBuffer
  bout,      \* block: result of block.toBuffer()
  bhead,     \* block: result of block.toBuffer(true)
  root,      \* block: result of Block.calculateMerkleRoot(block.transactions)
  bits,      \* proof of work: the block's bits field
  hash,      \* proof of work: the 32 bytes the block's getHash() returns
  pow,       \* proof of work: result of checkProofOfWork()
  builder,   \* builder: the transaction in progress and the input metadata
  last,      \* builder: the last call, the state it found and its outcome
  heap,      \* live: the objects, by reference
  this,      \* live: the reference of the live transaction
  made,      \* live: the fields the live transaction was made with
  prior,     \* live: input index and hashType & 0x1f of the call before
  hcall,     \* live: the last hashForSignature call
  hdigest,   \* live: what the last call returned
  junk,      \* the byte Buffer.allocUnsafe finds in fresh memory
  pc         \* position of the running scenario

codecVars == <<wire, enc, tx, out, blen, txid>>
sigVars == <<stx, twin, call, digest, digest2>>
blockVars == <<bwire, benc, block, bout, bhead, root>>
powVars == <<bits, hash, pow>>
builderVars == <<builder, last>>
liveVars == <<heap, this, made, prior, hcall, hdigest>>
vars == <<wire, enc, tx, out, blen, txid, stx, twin, call, digest, digest2,
          bwire, benc, block, bout, bhead, root, bits, hash, pow,
          builder, last, heap, this, made, prior, hcall, hdigest, junk, pc>>

None == [none |-> TRUE]

\* The variables of the scenarios that are not running.
IdleCodec ==
  /\ wire = None /\ enc = None /\ tx = None
  /\ out = None /\ blen = None /\ txid = None

IdleSig ==
  /\ stx = None /\ twin = None /\ call = None
  /\ digest = None /\ digest2 = None

IdleBlock ==
  /\ bwire = None /\ benc = None /\ block = None
  /\ bout = None /\ bhead = None /\ root = None

IdlePow == bits = None /\ hash = None /\ pow = None

IdleBuilder == builder = None /\ last = None

IdleLive ==
  /\ heap = None /\ this = None /\ made = None
  /\ prior = None /\ hcall = None /\ hdigest = None

(***************************************************************************)
(* Bounds of the model.                                                    *)
(***************************************************************************)
MaxIns == 2
MaxOuts == 2
MaxTxs == 3
MaxSigs == 2

(***************************************************************************)
(* Program constants.                                                      *)
(***************************************************************************)
SIGHASH_ALL == 1
SIGHASH_NONE == 2
SIGHASH_SINGLE == 3
SIGHASH_ANYONECANPAY == 128

Rep(n, b) == [i \in 1..n |-> b]

ZERO == Rep(32, 0)
ONE == Rep(31, 0) \o <<1>>
EMPTY_SCRIPT == <<>>
VALUE_UINT64_MAX == Rep(8, 255)
BLANK_OUTPUT == [script |-> EMPTY_SCRIPT, valueBuffer |-> VALUE_UINT64_MAX]
DEFAULT_SEQUENCE == Rep(4, 255)

\* A count no buffer of the model can hold: stands for every CompactSize
\* value of 2^24 and more.
Huge == 256 * 65536

(***************************************************************************)
(* Numbers and their fixed-width little-endian encodings.                  *)
(***************************************************************************)
RECURSIVE Canon(_)
Canon(d) ==
  IF d = <<>> THEN <<>>
  ELSE IF d[Len(d)] = 0 THEN Canon(SubSeq(d, 1, Len(d) - 1))
  ELSE d

\* The digits of number n written in exactly w bytes.
Pad(n, w) == n \o Rep(w - Len(n), 0)

ToInt32(b) ==
  b[1] + 256 * b[2] + 65536 * b[3]
    + 16777216 * (IF b[4] >= 128 THEN b[4] - 256 ELSE b[4])

FromInt32(v) ==
  <<v % 256, (v \div 256) % 256, (v \div 65536) % 256,
    (v \div 16777216) % 256>>

\* A CompactSize payload as a count: exact below 2^24, Huge from there on.
ToCount(b) ==
  LET c == Canon(b)
      p == Pad(c, 3)
  IN  IF Len(c) > 3 THEN Huge ELSE p[1] + 256 * p[2] + 65536 * p[3]

(***************************************************************************)
(* varuint-bitcoin                                                         *)
(***************************************************************************)
encodingLength(n) ==
  IF n < 253 THEN 1
  ELSE IF n <= 65535 THEN 3
  ELSE 5   \* 9 above 0xffffffff, which no length of the model reaches

encode(n) ==
  IF n < 253 THEN <<n>>
  ELSE IF n <= 65535 THEN <<253, n % 256, n \div 256>>
  ELSE <<254>> \o FromInt32(n)

(***************************************************************************)
(* BufferReader: a buffer, an offset, and ok = FALSE once a read ran past  *)
(* the end of the buffer (the read throws, and so does the caller).        *)
(* canon is a history field the program does not have: every CompactSize   *)
(* read so far came in its minimal width.                                  *)
(***************************************************************************)
BufferReader(buffer) ==
  [buffer |-> buffer, offset |-> 0, ok |-> TRUE, canon |-> TRUE]

readSlice(r, n) ==
  IF r.ok /\ r.offset + n <= Len(r.buffer)
  THEN [r |-> [r EXCEPT !.offset = @ + n],
        v |-> SubSeq(r.buffer, r.offset + 1, r.offset + n)]
  ELSE [r |-> [r EXCEPT !.ok = FALSE], v |-> Rep(IF n < 64 THEN n ELSE 0, 0)]

readInt32(r) ==
  LET s == readSlice(r, 4) IN [r |-> s.r, v |-> ToInt32(s.v)]

readUInt32(r) ==
  LET s == readSlice(r, 4) IN [r |-> s.r, v |-> Canon(s.v)]

readUInt64(r) ==
  LET s == readSlice(r, 8) IN [r |-> s.r, v |-> Canon(s.v)]

\* The width of the CompactSize payload after first byte b, and whether
\* payload p of that width holds a value the shorter forms cannot.
PayloadWidth(b) ==
  IF b = 253 THEN 2 ELSE IF b = 254 THEN 4 ELSE IF b = 255 THEN 8 ELSE 0

IsMinimal(p) ==
  \/ Len(p) = 0
  \/ Len(p) = 2 /\ ToCount(p) >= 253
  \/ Len(p) = 4 /\ ToCount(p) > 65535
  \/ Len(p) = 8 /\ Len(Canon(p)) > 4

readVarInt(r) ==
  LET f == readSlice(r, 1)
      p == readSlice(f.r, PayloadWidth(f.v[1]))
  IN  [r |-> [p.r EXCEPT !.canon = @ /\ IsMinimal(p.v)],
       v |-> IF p.v = <<>> THEN f.v[1] ELSE ToCount(p.v)]

readVarSlice(r) ==
  LET n == readVarInt(r) IN readSlice(n.r, n.v)

(***************************************************************************)
(* BufferWriter: ok = FALSE once a write ran past the end of the buffer.   *)
(***************************************************************************)
BufferWriter(buffer, offset) == [buffer |-> buffer, offset |-> offset, ok |-> TRUE]

writeSlice(w, s) ==
  IF w.ok /\ w.offset + Len(s) <= Len(w.buffer)
  THEN [w EXCEPT
          !.buffer = SubSeq(@, 1, w.offset) \o s
                       \o SubSeq(@, w.offset + Len(s) + 1, Len(@)),
          !.offset = @ + Len(s)]
  ELSE [w EXCEPT !.ok = FALSE]

writeInt32(w, v) == writeSlice(w, FromInt32(v))

\* A number of more than 4 (8) digits is out of the field's range: throws.
writeUInt32(w, n) ==
  IF Len(n) > 4 THEN [w EXCEPT !.ok = FALSE] ELSE writeSlice(w, Pad(n, 4))

writeUInt64(w, n) ==
  IF Len(n) > 8 THEN [w EXCEPT !.ok = FALSE] ELSE writeSlice(w, Pad(n, 8))

writeVarInt(w, n) == writeSlice(w, encode(n))

writeVarSlice(w, s) == writeSlice(writeVarInt(w, Len(s)), s)

(***************************************************************************)
(* crypto.hash256                                                          *)
(***************************************************************************)
hash256(b) == <<256>> \o b \o <<257>>

(***************************************************************************)
(* Transaction                                                             *)
(***************************************************************************)
varSliceSize(someScript) == encodingLength(Len(someScript)) + Len(someScript)

isOutput(o) == "value" \in DOMAIN o

RECURSIVE SumIns(_)
SumIns(ins) ==
  IF ins = <<>> THEN 0
  ELSE 40 + varSliceSize(Head(ins).script) + SumIns(Tail(ins))

RECURSIVE SumOuts(_)
SumOuts(outs) ==
  IF outs = <<>> THEN 0
  ELSE 8 + varSliceSize(Head(outs).script) + SumOuts(Tail(outs))

\* Mutant: the header counted with a 32-bit time whatever the version.
Transaction_byteLength_time32(t) ==
  12 + encodingLength(Len(t.ins)) + encodingLength(Len(t.outs))
    + SumIns(t.ins) + SumOuts(t.outs)

Transaction_byteLength(t) ==
  (IF t.version >= 2 THEN 16 ELSE 12)
    + encodingLength(Len(t.ins)) + encodingLength(Len(t.outs))
    + SumIns(t.ins) + SumOuts(t.outs)

\* Transaction.fromBuffer, one read at a time: s.r is the BufferReader,
\* s.at the read that comes next, s.n the iterations the running loop has
\* left, s.hash, s.index, s.script and s.value the fields of the input or
\* output being read, and s.tx the transaction read so far.
TxReadStart(buffer) ==
  [r |-> BufferReader(buffer), at |-> "version", n |-> 0,
   hash |-> <<>>, index |-> <<>>, script |-> <<>>, value |-> <<>>,
   tx |-> [version |-> 0, time |-> <<>>, locktime |-> <<>>,
           ins |-> <<>>, outs |-> <<>>]]

TxReadStep(s) ==
  CASE s.at = "version" ->
         LET x == readInt32(s.r)
         IN  [s EXCEPT !.r = x.r, !.tx.version = x.v, !.at = "time"]
    [] s.at = "time" ->
         LET x == IF s.tx.version >= 2 THEN readUInt64(s.r)
                  ELSE readUInt32(s.r)
         IN  [s EXCEPT !.r = x.r, !.tx.time = x.v, !.at = "vinLen"]
    [] s.at = "vinLen" ->
         LET x == readVarInt(s.r)
         IN  [s EXCEPT !.r = x.r, !.n = x.v,
                       !.at = IF x.v > 0 THEN "in.hash" ELSE "voutLen"]
    [] s.at = "in.hash" ->
         LET x == readSlice(s.r, 32)
         IN  [s EXCEPT !.r = x.r, !.hash = x.v, !.at = "in.index"]
    [] s.at = "in.index" ->
         LET x == readUInt32(s.r)
         IN  [s EXCEPT !.r = x.r, !.index = x.v, !.at = "in.script"]
    [] s.at = "in.script" ->
         LET x == readVarSlice(s.r)
         IN  [s EXCEPT !.r = x.r, !.script = x.v, !.at = "in.sequence"]
    [] s.at = "in.sequence" ->
         LET x == readUInt32(s.r)
         IN  [s EXCEPT !.r = x.r, !.n = @ - 1,
                       !.tx.ins = Append(@, [hash |-> s.hash, index |-> s.index,
                                             script |-> s.script,
                                             sequence |-> x.v]),
                       !.at = IF s.n > 1 THEN "in.hash" ELSE "voutLen"]
    [] s.at = "voutLen" ->
         LET x == readVarInt(s.r)
         IN  [s EXCEPT !.r = x.r, !.n = x.v,
                       !.at = IF x.v > 0 THEN "out.value" ELSE "locktime"]
    [] s.at = "out.value" ->
         LET x == readUInt64(s.r)
         IN  [s EXCEPT !.r = x.r, !.value = x.v, !.at = "out.script"]
    [] s.at = "out.script" ->
         LET x == readVarSlice(s.r)
         IN  [s EXCEPT !.r = x.r, !.n = @ - 1,
                       !.tx.outs = Append(@, [value |-> s.value, script |-> x.v]),
                       !.at = IF s.n > 1 THEN "out.value" ELSE "locktime"]
    [] s.at = "locktime" ->
         LET x == readUInt32(s.r)
         IN  [s EXCEPT !.r = x.r, !.tx.locktime = x.v, !.at = "end"]

\* The reads in order, up to the last one or to the one that throws.
RECURSIVE TxReadRun(_)
TxReadRun(s) ==
  IF s.at = "end" \/ ~s.r.ok THEN s ELSE TxReadRun(TxReadStep(s))

Transaction_read(buffer) == TxReadRun(TxReadStart(buffer))

Transaction_fromBuffer(buffer, NO_STRICT) ==
  LET p == Transaction_read(buffer)
  IN  IF ~p.r.ok THEN [error |-> "out of bounds"]
      ELSE IF ~NO_STRICT /\ p.r.offset # Len(buffer)
      THEN [error |-> "Transaction has unexpected data"]
      ELSE p.tx

IsTx(t) == "version" \in DOMAIN t

isCoinbaseHash(buffer) == \A i \in 1..32 : buffer[i] = 0

isCoinbase(t) == Len(t.ins) = 1 /\ isCoinbaseHash(t.ins[1].hash)

\* The calls __toBuffer makes on its BufferWriter, in order.
RECURSIVE InsWrites(_)
InsWrites(ins) ==
  IF ins = <<>> THEN <<>>
  ELSE << [op |-> "Slice", v |-> Head(ins).hash],
          [op |-> "UInt32", v |-> Head(ins).index],
          [op |-> "VarSlice", v |-> Head(ins).script],
          [op |-> "UInt32", v |-> Head(ins).sequence] >>
         \o InsWrites(Tail(ins))

RECURSIVE OutsWrites(_)
OutsWrites(outs) ==
  IF outs = <<>> THEN <<>>
  ELSE << IF isOutput(Head(outs))
          THEN [op |-> "UInt64", v |-> Head(outs).value]
          ELSE [op |-> "Slice", v |-> Head(outs).valueBuffer],
          [op |-> "VarSlice", v |-> Head(outs).script] >>
         \o OutsWrites(Tail(outs))

\* Mutant: the outputs written before the inputs.
TxWrites_outsFirst(t) ==
  << [op |-> "Int32", v |-> t.version],
     [op |-> IF t.version >= 2 THEN "UInt64" ELSE "UInt32", v |-> t.time],
     [op |-> "VarInt", v |-> Len(t.outs)] >>
    \o OutsWrites(t.outs)
    \o << [op |-> "VarInt", v |-> Len(t.ins)] >>
    \o InsWrites(t.ins)
    \o << [op |-> "UInt32", v |-> t.locktime] >>

TxWrites(t) ==
  << [op |-> "Int32", v |-> t.version],
     [op |-> IF t.version >= 2 THEN "UInt64" ELSE "UInt32", v |-> t.time],
     [op |-> "VarInt", v |-> Len(t.ins)] >>
    \o InsWrites(t.ins)
    \o << [op |-> "VarInt", v |-> Len(t.outs)] >>
    \o OutsWrites(t.outs)
    \o << [op |-> "UInt32", v |-> t.locktime] >>

write(w, c) ==
  CASE c.op = "Int32" -> writeInt32(w, c.v)
    [] c.op = "UInt32" -> writeUInt32(w, c.v)
    [] c.op = "UInt64" -> writeUInt64(w, c.v)
    [] c.op = "VarInt" -> writeVarInt(w, c.v)
    [] c.op = "Slice" -> writeSlice(w, c.v)
    [] c.op = "VarSlice" -> writeVarSlice(w, c.v)

RECURSIVE RunWrites(_, _)
RunWrites(w, cs) ==
  IF cs = <<>> THEN w ELSE RunWrites(write(w, Head(cs)), Tail(cs))

\* __toBuffer writing into buffer from initialOffset; the writer it ends with.
Transaction_write(t, buffer, initialOffset) ==
  RunWrites(BufferWriter(buffer, initialOffset), TxWrites(t))

\* toBuffer(): a fresh buffer of byteLength() bytes, whose content before
\* the writes is whatever allocUnsafe finds (fill).
Transaction_toBuffer(t, fill) ==
  Transaction_write(t, Rep(Transaction_byteLength(t), fill), 0)

\* Mutant: the content hash for a coinbase transaction too.
Transaction_getHash_noCoinbase(t, fill) ==
  hash256(Transaction_toBuffer(t, fill).buffer)

Transaction_getHash(t, fill) ==
  IF isCoinbase(t) THEN ZERO
  ELSE hash256(Transaction_toBuffer(t, fill).buffer)

(***************************************************************************)
(* Block                                                                   *)
(***************************************************************************)
errorMerkleNoTxes ==
  [error |-> "Cannot compute merkle root for zero transactions"]

HasTransactions(b) == "transactions" \in DOMAIN b

\* Block.fromBuffer past its length check, one read at a time: s.at names
\* the read that comes next, s.n the transactions still to read.
BlockReadStart(buffer) ==
  [r |-> BufferReader(buffer), at |-> "version", n |-> 0,
   block |-> [version |-> 1, prevHash |-> <<>>, merkleRoot |-> <<>>,
              timestamp |-> <<>>, bits |-> <<>>, nonce |-> <<>>]]

\* readTransaction: the transaction is parsed from the rest of the buffer
\* without the strict check and the offset moves on by its byteLength().
readTransaction_advance(r, t) ==
  IF IsTx(t)
  THEN [r |-> [r EXCEPT !.offset = @ + Transaction_byteLength(t)], v |-> t]
  ELSE [r |-> [r EXCEPT !.ok = FALSE], v |-> t]

readTransaction(r) ==
  readTransaction_advance(
    r, Transaction_fromBuffer(
         SubSeq(r.buffer, r.offset + 1, Len(r.buffer)), TRUE))

BlockReadStep(s) ==
  CASE s.at = "version" ->
         LET x == readInt32(s.r)
         IN  [s EXCEPT !.r = x.r, !.block.version = x.v, !.at = "prevHash"]
    [] s.at = "prevHash" ->
         LET x == readSlice(s.r, 32)
         IN  [s EXCEPT !.r = x.r, !.block.prevHash = x.v, !.at = "merkleRoot"]
    [] s.at = "merkleRoot" ->
         LET x == readSlice(s.r, 32)
         IN  [s EXCEPT !.r = x.r, !.block.merkleRoot = x.v, !.at = "timestamp"]
    [] s.at = "timestamp" ->
         LET x == readUInt32(s.r)
         IN  [s EXCEPT !.r = x.r, !.block.timestamp = x.v, !.at = "bits"]
    [] s.at = "bits" ->
         LET x == readUInt32(s.r)
         IN  [s EXCEPT !.r = x.r, !.block.bits = x.v, !.at = "nonce"]
    [] s.at = "nonce" ->
         LET x == readUInt32(s.r)
         IN  [s EXCEPT !.r = x.r, !.block.nonce = x.v,
                       !.at = IF Len(s.r.buffer) = 80 THEN "end"
                              ELSE "nTransactions"]
    [] s.at = "nTransactions" ->
         LET x == readVarInt(s.r)
         IN  [s EXCEPT !.r = x.r, !.n = x.v,
                       !.block = [transactions |-> <<>>] @@ @,
                       !.at = IF x.v > 0 THEN "tx" ELSE "end"]
    [] s.at = "tx" ->
         LET x == readTransaction(s.r)
         IN  [s EXCEPT !.r = x.r, !.n = @ - 1,
                       !.block.transactions = Append(@, x.v),
                       !.at = IF s.n > 1 THEN "tx" ELSE "end"]

RECURSIVE BlockReadRun(_)
BlockReadRun(s) ==
  IF s.at = "end" \/ ~s.r.ok THEN s ELSE BlockReadRun(BlockReadStep(s))

Block_fromBuffer(buffer) ==
  IF Len(buffer) < 80 THEN [error |-> "Buffer too small (< 80 bytes)"]
  ELSE LET s == BlockReadRun(BlockReadStart(buffer))
       IN  IF s.r.ok THEN s.block ELSE [error |-> "out of bounds"]

IsBlock(b) == "version" \in DOMAIN b

RECURSIVE SumTxs(_)
SumTxs(txs) ==
  IF txs = <<>> THEN 0
  ELSE Transaction_byteLength(Head(txs)) + SumTxs(Tail(txs))

\* Mutant: the length leaves out the transaction count.
Block_byteLength_noCount(b, headersOnly) ==
  IF headersOnly \/ ~HasTransactions(b) THEN 80
  ELSE 80 + SumTxs(b.transactions)

Block_byteLength(b, headersOnly) ==
  IF headersOnly \/ ~HasTransactions(b) THEN 80
  ELSE 80 + encodingLength(Len(b.transactions)) + SumTxs(b.transactions)

\* transactions.forEach of toBuffer: each transaction written at the
\* offset, which then moves on by the transaction's byteLength().
RECURSIVE WriteTxs(_, _)
WriteTxs(w, txs) ==
  IF txs = <<>> \/ ~w.ok THEN w
  ELSE LET txSize == Transaction_byteLength(Head(txs))
           x == Transaction_write(Head(txs), w.buffer, w.offset)
       IN  WriteTxs([buffer |-> x.buffer, offset |-> w.offset + txSize,
                     ok |-> x.ok],
                    Tail(txs))

HeaderWrites(b) ==
  << [op |-> "Int32", v |-> b.version],
     [op |-> "Slice", v |-> b.prevHash],
     [op |-> "Slice", v |-> b.merkleRoot],
     [op |-> "UInt32", v |-> b.timestamp],
     [op |-> "UInt32", v |-> b.bits],
     [op |-> "UInt32", v |-> b.nonce] >>

Block_toBuffer(b, headersOnly, fill) ==
  LET buffer == Rep(Block_byteLength(b, headersOnly), fill)
      h == RunWrites(BufferWriter(buffer, 0), HeaderWrites(b))
  IN  IF headersOnly \/ ~HasTransactions(b) THEN h
      ELSE WriteTxs(writeVarInt(h, Len(b.transactions)), b.transactions)

\* merkle-lib/fastRoot: one pass over results[0 .. length-1], pairs hashed
\* into results[0 .. j-1].
RECURSIVE FastRootPass(_, _, _, _)
FastRootPass(results, length, i, j) ==
  IF i >= length THEN [results |-> results, length |-> j]
  ELSE LET left == results[i + 1]
           right == IF i + 1 = length THEN left ELSE results[i + 2]
       IN  FastRootPass([results EXCEPT ![j + 1] = hash256(left \o right)],
                        length, i + 2, j + 1)

RECURSIVE FastRootLoop(_, _)
FastRootLoop(results, length) ==
  IF length > 1
  THEN LET x == FastRootPass(results, length, 0, 0)
       IN  FastRootLoop(x.results, x.length)
  ELSE results[1]

fastMerkleRoot(values) == FastRootLoop(values, Len(values))

\* Mutant: the leaves are the content hashes, for a coinbase too.
calculateMerkleRoot_contentHash(transactions, fill) ==
  IF Len(transactions) = 0 THEN errorMerkleNoTxes
  ELSE [root |-> fastMerkleRoot(
                   [k \in 1..Len(transactions) |->
                      hash256(Transaction_toBuffer(transactions[k], fill).buffer)])]

calculateMerkleRoot(transactions, fill) ==
  IF Len(transactions) = 0 THEN errorMerkleNoTxes
  ELSE [root |-> fastMerkleRoot(
                   [k \in 1..Len(transactions) |->
                      Transaction_getHash(transactions[k], fill)])]

\* bufferutils reverseBuffer
reverseBuffer(b) == [i \in 1..Len(b) |-> b[Len(b) + 1 - i]]

\* Buffer.compare: -1, 0 or 1 by the first byte that differs.
RECURSIVE compare(_, _)
compare(a, b) ==
  IF a = <<>> /\ b = <<>> THEN 0
  ELSE IF a = <<>> THEN -1
  ELSE IF b = <<>> THEN 1
  ELSE IF Head(a) < Head(b) THEN -1
  ELSE IF Head(a) > Head(b) THEN 1
  ELSE compare(Tail(a), Tail(b))

\* calculateTarget: (bits & 0xff000000) >> 24 is a signed shift, so a top
\* byte of 0x80 and above gives a negative exponent; writeUIntBE throws a
\* RangeError unless 0 <= offset <= 29.
calculateTarget(n) ==
  LET b == Pad(n, 4)
      exponent == (IF b[4] >= 128 THEN b[4] - 256 ELSE b[4]) - 3
      mantissa == <<b[3] % 128, b[2], b[1]>>
      offset == 29 - exponent
  IN  IF offset < 0 \/ offset > 29 THEN [error |-> "RangeError"]
      ELSE [target |-> Rep(offset, 0) \o mantissa \o Rep(29 - offset, 0)]

\* Mutant: the hash has to be below the target.
checkProofOfWork_strict(n, h) ==
  LET target == calculateTarget(n)
  IN  IF "error" \in DOMAIN target THEN target
      ELSE [valid |-> compare(reverseBuffer(h), target.target) < 0]

\* checkProofOfWork of a block whose bits field is n and whose getHash()
\* is h.
checkProofOfWork(n, h) ==
  LET target == calculateTarget(n)
  IN  IF "error" \in DOMAIN target THEN target
      ELSE [valid |-> compare(reverseBuffer(h), target.target) <= 0]

(***************************************************************************)
(* TransactionBuilder.  The builder holds the inputs and outputs of the    *)
(* transaction in progress and, per input, the hash types of the           *)
(* signatures applied to it, in the order they were applied.               *)
(***************************************************************************)
NewBuilder == [ins |-> <<>>, outs |-> <<>>, inputs |-> <<>>]

AppliedSignatures(b) ==
  { x \in (1..Len(b.inputs)) \X (1..MaxSigs) :
      x[2] <= Len(b.inputs[x[1]].signatures) }

\* Mutant: only a signature of type ALL without ANYONECANPAY blocks.
canModifyInputs_allOnly(b) ==
  \A x \in AppliedSignatures(b) :
    b.inputs[x[1]].signatures[x[2]] # SIGHASH_ALL

canModifyInputs(b) ==
  \A x \in AppliedSignatures(b) :
    (b.inputs[x[1]].signatures[x[2]] \div SIGHASH_ANYONECANPAY) % 2 = 1

\* Mutant: a SINGLE signature never blocks.
canModifyOutputs_singleFree(b) ==
  \A x \in AppliedSignatures(b) :
    b.inputs[x[1]].signatures[x[2]] % 32 # SIGHASH_ALL

canModifyOutputs(b) ==
  \A x \in AppliedSignatures(b) :
    LET hashTypeMod == b.inputs[x[1]].signatures[x[2]] % 32
    IN  /\ hashTypeMod # SIGHASH_ALL
        /\ hashTypeMod = SIGHASH_SINGLE => x[1] - 1 < Len(b.outs)

Rejected(b, message) == [b |-> b, ok |-> FALSE, result |-> message]

addInput(b, txHash, vout) ==
  IF ~canModifyInputs(b)
  THEN Rejected(b, "No, this would invalidate signatures")
  ELSE [b |-> [b EXCEPT !.ins = Append(@, [hash |-> txHash, index |-> vout]),
                        !.inputs = Append(@, [signatures |-> <<>>])],
        ok |-> TRUE, result |-> Len(b.ins)]

addOutput(b, scriptPubKey, value) ==
  IF ~canModifyOutputs(b)
  THEN Rejected(b, "No, this would invalidate signatures")
  ELSE [b |-> [b EXCEPT !.outs = Append(@, [script |-> scriptPubKey,
                                            value |-> value])],
        ok |-> TRUE, result |-> Len(b.outs)]

\* sign: signerFails stands for the failures that do not depend on the
\* signatures applied so far (script type not determined, fee too high,
\* the Signer failing).
sign(b, vin, hashType, signerFails) ==
  IF vin >= Len(b.ins) THEN Rejected(b, "No input at index")
  ELSE IF signerFails THEN Rejected(b, "sign failed")
  ELSE [b |-> [b EXCEPT !.inputs[vin + 1].signatures = Append(@, hashType)],
        ok |-> TRUE, result |-> vin]

(***************************************************************************)
(* script: decompile, drop the OP_CODESEPARATOR opcodes, compile.  A byte  *)
(* 1..75 pushes that many bytes of data, which are kept as they are; every *)
(* other byte of the model's scripts is a one-byte opcode.                 *)
(***************************************************************************)
OP_CODESEPARATOR == 171

RECURSIVE withoutCodeSeparators(_)
withoutCodeSeparators(script) ==
  IF script = <<>> THEN <<>>
  ELSE LET op == Head(script)
       IN  IF op >= 1 /\ op <= 75
           THEN SubSeq(script, 1, op + 1)
                  \o withoutCodeSeparators(SubSeq(script, op + 2, Len(script)))
           ELSE IF op = OP_CODESEPARATOR
           THEN withoutCodeSeparators(Tail(script))
           ELSE <<op>> \o withoutCodeSeparators(Tail(script))

clone(t) ==
  [version |-> t.version, time |-> t.time, locktime |-> t.locktime,
   ins |-> [k \in 1..Len(t.ins) |->
              [hash |-> t.ins[k].hash, index |-> t.ins[k].index,
               script |-> t.ins[k].script, sequence |-> t.ins[k].sequence]],
   outs |-> [k \in 1..Len(t.outs) |->
               [script |-> t.outs[k].script, value |-> t.outs[k].value]]]

\* ins.forEach: sequence = 0 for every input but the one at inIndex.
ZeroOtherSequences(ins, inIndex) ==
  [k \in 1..Len(ins) |->
     IF k = inIndex + 1 THEN ins[k] ELSE [ins[k] EXCEPT !.sequence = <<>>]]

\* Mutant: SIGHASH_NONE leaves the outputs in place.
SighashOutputs_noneKeepsOutputs(txTmp, inIndex, hashType) ==
  IF hashType % 32 = SIGHASH_NONE
  THEN [txTmp EXCEPT !.ins = ZeroOtherSequences(@, inIndex)]
  ELSE IF hashType % 32 = SIGHASH_SINGLE
  THEN [txTmp EXCEPT
          !.outs = [k \in 1..(inIndex + 1) |->
                      IF k <= inIndex THEN BLANK_OUTPUT ELSE @[k]],
          !.ins = ZeroOtherSequences(@, inIndex)]
  ELSE txTmp

\* hashForSignature, lines 427-457: the outputs and sequences of the clone.
SighashOutputs(txTmp, inIndex, hashType) ==
  IF hashType % 32 = SIGHASH_NONE
  THEN [txTmp EXCEPT !.outs = <<>>,
                     !.ins = ZeroOtherSequences(@, inIndex)]
  ELSE IF hashType % 32 = SIGHASH_SINGLE
  THEN [txTmp EXCEPT
          !.outs = [k \in 1..(inIndex + 1) |->
                      IF k <= inIndex THEN BLANK_OUTPUT ELSE @[k]],
          !.ins = ZeroOtherSequences(@, inIndex)]
  ELSE txTmp

\* hashForSignature, lines 459-471: the inputs of the clone.
SighashInputs(txTmp, inIndex, hashType, ourScript) ==
  IF (hashType \div SIGHASH_ANYONECANPAY) % 2 = 1
  THEN [txTmp EXCEPT
          !.ins = << [@[inIndex + 1] EXCEPT !.script = ourScript] >>]
  ELSE [txTmp EXCEPT
          !.ins = [k \in 1..Len(@) |->
                     [@[k] EXCEPT !.script = IF k = inIndex + 1 THEN ourScript
                                             ELSE EMPTY_SCRIPT]]]

\* Mutant: no early return for SIGHASH_SINGLE without a matching output;
\* the output list is then extended with blanks up to inIndex.
hashForSignature_noSingleGuard(t, inIndex, prevOutScript, hashType, fill) ==
  IF inIndex >= Len(t.ins) THEN ONE
  ELSE
    LET ourScript == withoutCodeSeparators(prevOutScript)
        c == clone(t)
        padded == [c EXCEPT !.outs = @ \o Rep(inIndex + 1 - Len(@), BLANK_OUTPUT)]
        txTmp == SighashInputs(SighashOutputs(
                                 IF hashType % 32 = SIGHASH_SINGLE
                                    /\ inIndex >= Len(c.outs)
                                 THEN padded ELSE c, inIndex, hashType),
                               inIndex, hashType, ourScript)
        n == Transaction_byteLength(txTmp) + 4
        buffer == [i \in 1..n |-> IF i > n - 4 THEN FromInt32(hashType)[i - n + 4]
                                  ELSE fill]
        w == Transaction_write(txTmp, buffer, 0)
    IN  IF w.ok THEN hash256(w.buffer) ELSE [error |-> "RangeError"]

hashForSignature(t, inIndex, prevOutScript, hashType, fill) ==
  IF inIndex >= Len(t.ins) THEN ONE
  ELSE IF hashType % 32 = SIGHASH_SINGLE /\ inIndex >= Len(t.outs) THEN ONE
  ELSE
    LET ourScript == withoutCodeSeparators(prevOutScript)
        txTmp == SighashInputs(SighashOutputs(clone(t), inIndex, hashType),
                               inIndex, hashType, ourScript)
        n == Transaction_byteLength(txTmp) + 4
        buffer == [i \in 1..n |-> IF i > n - 4 THEN FromInt32(hashType)[i - n + 4]
                                  ELSE fill]
        w == Transaction_write(txTmp, buffer, 0)
    IN  IF w.ok THEN hash256(w.buffer) ELSE [error |-> "RangeError"]

(***************************************************************************)
(* hashForSignature on objects.  A heap maps references to objects: a      *)
(* Buffer [bytes], an array [items], an input [hash, index, script,        *)
(* sequence], an output [script, value], the blank output [script,         *)
(* valueBuffer] and a Transaction [version, time, locktime, ins, outs];    *)
(* hash, script, valueBuffer, ins, outs and the items of an array are      *)
(* references.  An assignment to a field changes the object every holder   *)
(* of the reference sees.                                                  *)
(***************************************************************************)
\* The objects of module scope.
EmptyScriptRef == 1
ValueUInt64MaxRef == 2
BlankOutputRef == 3
ModuleRefs == {EmptyScriptRef, ValueUInt64MaxRef, BlankOutputRef}

ModuleHeap ==
  << [bytes |-> EMPTY_SCRIPT],
     [bytes |-> VALUE_UINT64_MAX],
     [script |-> EmptyScriptRef, valueBuffer |-> ValueUInt64MaxRef] >>

\* A reference no object of h has.
New(h) == (CHOOSE a \in DOMAIN h : \A b \in DOMAIN h : b <= a) + 1

\* Mutant: map hands the input object itself to the new array.
cloneTxIn_shared(h, txIn) == [h |-> h, ref |-> txIn]

\* clone, the callback of ins.map: a new object with the four fields of
\* txIn.
cloneTxIn(h, txIn) ==
  [h |-> h @@ (New(h) :> [hash |-> h[txIn].hash, index |-> h[txIn].index,
                          script |-> h[txIn].script,
                          sequence |-> h[txIn].sequence]),
   ref |-> New(h)]

\* clone, the callback of outs.map.
cloneTxOut(h, txOut) ==
  [h |-> h @@ (New(h) :> [script |-> h[txOut].script,
                          value |-> h[txOut].value]),
   ref |-> New(h)]

\* What a reader of the transaction at reference t finds: the record of
\* its fields with every reference followed.
ViewIn(h, a) ==
  [hash |-> h[h[a].hash].bytes, index |-> h[a].index,
   script |-> h[h[a].script].bytes, sequence |-> h[a].sequence]

ViewOut(h, a) ==
  IF "value" \in DOMAIN h[a]
  THEN [script |-> h[h[a].script].bytes, value |-> h[a].value]
  ELSE [script |-> h[h[a].script].bytes,
        valueBuffer |-> h[h[a].valueBuffer].bytes]

View(h, t) ==
  [version |-> h[t].version, time |-> h[t].time, locktime |-> h[t].locktime,
   ins |-> [k \in 1..Len(h[h[t].ins].items) |->
              ViewIn(h, h[h[t].ins].items[k])],
   outs |-> [k \in 1..Len(h[h[t].outs].items) |->
               ViewOut(h, h[h[t].outs].items[k])]]

\* hashForSignature, lines 472-478: the clone serialized into a fresh
\* buffer that ends with hashType, and hashed.
SerializeAndHash(txTmp, hashType, fill) ==
  LET n == Transaction_byteLength(txTmp) + 4
      buffer == Rep(n - 4, fill) \o FromInt32(hashType)
      w == Transaction_write(txTmp, buffer, 0)
  IN  IF w.ok THEN hash256(w.buffer) ELSE [error |-> "RangeError"]

\* hashForSignature of the transaction at reference m.this, one statement
\* at a time: m.at names the statement that comes next, m.i is the loop
\* index, m.txTmp and m.ourScript are the locals, m.ret the value returned.
SighashStart(h, self, inIndex, prevOutScript, hashType, fill) ==
  [h |-> h, this |-> self, inIndex |-> inIndex,
   prevOutScript |-> prevOutScript, hashType |-> hashType, fill |-> fill,
   at |-> "start", i |-> 0, txTmp |-> 0, ourScript |-> 0, ret |-> <<>>]

InsOf(m, t) == m.h[t].ins
OutsOf(m, t) == m.h[t].outs
ItemsOf(m, a) == m.h[a].items

SighashStep(m) ==
  CASE m.at = "start" ->
         IF m.inIndex >= Len(ItemsOf(m, InsOf(m, m.this)))
         THEN [m EXCEPT !.ret = ONE, !.at = "end"]
         ELSE [m EXCEPT
                 !.h = @ @@ (New(@) :>
                         [bytes |-> withoutCodeSeparators(m.prevOutScript)]),
                 !.ourScript = New(m.h),
                 !.at = "clone"]
    [] m.at = "clone" ->
         [m EXCEPT
            !.h = @ @@ (New(@) :> [version |-> @[m.this].version,
                                   time |-> @[m.this].time,
                                   locktime |-> @[m.this].locktime,
                                   ins |-> New(@) + 1, outs |-> New(@) + 2])
                    @@ (New(@) + 1 :> [items |-> <<>>])
                    @@ (New(@) + 2 :> [items |-> <<>>]),
            !.txTmp = New(m.h), !.i = 0, !.at = "clone.ins"]
    [] m.at = "clone.ins" ->
         IF m.i >= Len(ItemsOf(m, InsOf(m, m.this)))
         THEN [m EXCEPT !.i = 0, !.at = "clone.outs"]
         ELSE [m EXCEPT
                 !.h = [cloneTxIn(@, ItemsOf(m, InsOf(m, m.this))[m.i + 1]).h
                          EXCEPT ![InsOf(m, m.txTmp)].items =
                            Append(@, cloneTxIn(
                                        m.h,
                                        ItemsOf(m, InsOf(m, m.this))[m.i + 1]
                                      ).ref)],
                 !.i = @ + 1]
    [] m.at = "clone.outs" ->
         IF m.i >= Len(ItemsOf(m, OutsOf(m, m.this)))
         THEN [m EXCEPT !.i = 0, !.at = "mode"]
         ELSE [m EXCEPT
                 !.h = [cloneTxOut(@, ItemsOf(m, OutsOf(m, m.this))[m.i + 1]).h
                          EXCEPT ![OutsOf(m, m.txTmp)].items =
                            Append(@, cloneTxOut(
                                        m.h,
                                        ItemsOf(m, OutsOf(m, m.this))[m.i + 1]
                                      ).ref)],
                 !.i = @ + 1]
    [] m.at = "mode" ->
         IF m.hashType % 32 = SIGHASH_NONE
         THEN [m EXCEPT
                 !.h = [@ @@ (New(@) :> [items |-> <<>>])
                          EXCEPT ![m.txTmp].outs = New(m.h)],
                 !.i = 0, !.at = "sequences"]
         ELSE IF m.hashType % 32 = SIGHASH_SINGLE
         THEN IF m.inIndex >= Len(ItemsOf(m, OutsOf(m, m.this)))
              THEN [m EXCEPT !.ret = ONE, !.at = "end"]
              ELSE [m EXCEPT
                      !.h[OutsOf(m, m.txTmp)].items =
                         SubSeq(@, 1, m.inIndex + 1),
                      !.i = 0, !.at = "blank"]
         ELSE [m EXCEPT !.at = "inputs"]
    [] m.at = "blank" ->
         IF m.i >= m.inIndex
         THEN [m EXCEPT !.i = 0, !.at = "sequences"]
         ELSE [m EXCEPT
                 !.h[OutsOf(m, m.txTmp)].items[m.i + 1] = BlankOutputRef,
                 !.i = @ + 1]
    [] m.at = "sequences" ->
         IF m.i >= Len(ItemsOf(m, InsOf(m, m.txTmp)))
         THEN [m EXCEPT !.i = 0, !.at = "inputs"]
         ELSE IF m.i = m.inIndex THEN [m EXCEPT !.i = @ + 1]
         ELSE [m EXCEPT
                 !.h[ItemsOf(m, InsOf(m, m.txTmp))[m.i + 1]].sequence = <<>>,
                 !.i = @ + 1]
    [] m.at = "inputs" ->
         IF (m.hashType \div SIGHASH_ANYONECANPAY) % 2 = 1
         THEN [m EXCEPT
                 !.h = [@ @@ (New(@) :>
                          [items |->
                             <<ItemsOf(m, InsOf(m, m.txTmp))[m.inIndex + 1]>>])
                          EXCEPT ![m.txTmp].ins = New(m.h)],
                 !.i = 0, !.at = "ourScript"]
         ELSE [m EXCEPT !.i = 0, !.at = "scripts"]
    [] m.at = "scripts" ->
         IF m.i >= Len(ItemsOf(m, InsOf(m, m.txTmp)))
         THEN [m EXCEPT !.i = m.inIndex, !.at = "ourScript"]
         ELSE [m EXCEPT
                 !.h[ItemsOf(m, InsOf(m, m.txTmp))[m.i + 1]].script =
                    EmptyScriptRef,
                 !.i = @ + 1]
    [] m.at = "ourScript" ->
         [m EXCEPT
            !.h[ItemsOf(m, InsOf(m, m.txTmp))[m.i + 1]].script = m.ourScript,
            !.at = "hash"]
    [] m.at = "hash" ->
         [m EXCEPT
            !.ret = SerializeAndHash(View(m.h, m.txTmp), m.hashType, m.fill),
            !.at = "end"]

RECURSIVE SighashRun(_)
SighashRun(m) == IF m.at = "end" THEN m ELSE SighashRun(SighashStep(m))

\* The references an object holds.
Refs(o) ==
  IF "bytes" \in DOMAIN o THEN {}
  ELSE IF "items" \in DOMAIN o THEN { o.items[k] : k \in 1..Len(o.items) }
  ELSE IF "hash" \in DOMAIN o THEN {o.hash, o.script}
  ELSE IF "valueBuffer" \in DOMAIN o THEN {o.script, o.valueBuffer}
  ELSE IF "value" \in DOMAIN o THEN {o.script}
  ELSE {o.ins, o.outs}

RECURSIVE Reach(_, _)
Reach(h, S) ==
  IF UNION { Refs(h[a]) : a \in S } \subseteq S THEN S
  ELSE Reach(h, S \cup UNION { Refs(h[a]) : a \in S })

\* The heap without the objects no reference in roots leads to.
Collect(h, roots) == [a \in Reach(h, roots) |-> h[a]]

(***************************************************************************)
(* Inputs of the codec scenario: wire images of sample transactions.  Each *)
(* image is produced from a transaction's fields with every CompactSize    *)
(* written in the width the mode asks for (1: the minimal one), then       *)
(* possibly cut short or followed by one more byte.                        *)
(***************************************************************************)
\* The transaction of src/ts_src/test.ts.
ExampleTx ==
  <<
    2, 0, 0, 0, 146, 217, 25, 98, 0, 0, 0, 0, 1, 0, 0, 0,
    0, 0, 0, 0, 0, 0, 0, 0, 0, 0, 0, 0, 0, 0, 0, 0,
    0, 0, 0, 0, 0, 0, 0, 0, 0, 0, 0, 0, 0, 255, 255, 255,
    255, 13, 3, 228, 234, 28, 1, 67, 6, 47, 80, 50, 83, 72, 47, 255,
    255, 255, 255, 1, 167, 167, 78, 0, 0, 0, 0, 0, 35, 33, 2, 226,
    141, 105, 234, 230, 182, 66, 35, 208, 31, 20, 249, 61, 111, 71, 25, 98,
    205, 77, 132, 221, 136, 185, 215, 228, 238, 0, 238, 48, 231, 220, 45, 172,
    0, 0, 0, 0 >>

Script253 == Rep(253, 172)
Script252 == Rep(252, 118)

SampleIns ==
  { [hash |-> ZERO, index |-> Rep(4, 255), script |-> <<3, 228, 234>>,
     sequence |-> DEFAULT_SEQUENCE],
    [hash |-> <<1>> \o Rep(31, 0), index |-> <<1>>, script |-> Script253,
     sequence |-> <<>>] }

SampleOuts ==
  { [value |-> <<167, 167, 78>>, script |-> <<118, 172>>],
    [value |-> <<0, 0, 0, 0, 1>>, script |-> Script252] }

SeqsUpTo(S, n) == UNION { [1..k -> S] : k \in 0..n }

SampleTxs ==
  { [version |-> h[1], time |-> h[2], locktime |-> h[3], ins |-> i, outs |-> o] :
      h \in { <<1, <<146, 217, 25, 98>>, <<>> >>,
              <<2, <<146, 217, 25, 98, 1>>, <<7>> >> },
      i \in SeqsUpTo(SampleIns, MaxIns),
      o \in SeqsUpTo(SampleOuts, MaxOuts) }

Modes == {"w1", "w3", "w5", "w9", "cut", "trail"}

EncodeCS(n, mode) ==
  IF mode = "w3" /\ n <= 65535 THEN <<253, n % 256, n \div 256>>
  ELSE IF mode = "w5" THEN <<254>> \o FromInt32(n)
  ELSE IF mode = "w9" THEN <<255>> \o FromInt32(n) \o Rep(4, 0)
  ELSE encode(n)

RECURSIVE WireIns(_, _)
WireIns(ins, mode) ==
  IF ins = <<>> THEN <<>>
  ELSE Head(ins).hash \o Pad(Head(ins).index, 4)
         \o EncodeCS(Len(Head(ins).script), mode) \o Head(ins).script
         \o Pad(Head(ins).sequence, 4) \o WireIns(Tail(ins), mode)

RECURSIVE WireOuts(_, _)
WireOuts(outs, mode) ==
  IF outs = <<>> THEN <<>>
  ELSE Pad(Head(outs).value, 8)
         \o EncodeCS(Len(Head(outs).script), mode) \o Head(outs).script
         \o WireOuts(Tail(outs), mode)

WireTx(t, mode) ==
  FromInt32(t.version) \o Pad(t.time, IF t.version >= 2 THEN 8 ELSE 4)
    \o EncodeCS(Len(t.ins), mode) \o WireIns(t.ins, mode)
    \o EncodeCS(Len(t.outs), mode) \o WireOuts(t.outs, mode)
    \o Pad(t.locktime, 4)

Wire(t, mode) ==
  IF mode = "cut" THEN SubSeq(WireTx(t, "w1"), 1, Len(WireTx(t, "w1")) - 1)
  ELSE IF mode = "trail" THEN WireTx(t, "w1") \o <<0>>
  ELSE WireTx(t, mode)

(***************************************************************************)
(* Codec scenario: Transaction.fromBuffer on the wire image, then          *)
(* byteLength(), toBuffer() and getHash() on the parsed transaction.       *)
(***************************************************************************)
UnsafeFill == {0, 255}

InitCodec ==
  /\ \/ \E t \in SampleTxs, m \in Modes : wire = Wire(t, m) /\ enc = m
     \/ wire = ExampleTx /\ enc = "example"
  /\ tx = None
  /\ out = None
  /\ blen = None
  /\ txid = None
  /\ junk \in UnsafeFill
  /\ pc = "start"
  /\ IdleSig
  /\ IdleBlock
  /\ IdlePow
  /\ IdleBuilder
  /\ IdleLive

FromBuffer ==
  /\ pc = "start"
  /\ tx' = Transaction_fromBuffer(wire, FALSE)
  /\ pc' = IF IsTx(tx') THEN "parsed" ELSE "rejected"
  /\ UNCHANGED <<wire, enc, out, blen, txid, sigVars, blockVars, powVars,
                 builderVars, liveVars, junk>>

ByteLength ==
  /\ pc = "parsed"
  /\ blen' = Transaction_byteLength(tx)
  /\ pc' = "sized"
  /\ UNCHANGED <<wire, enc, tx, out, txid, sigVars, blockVars, powVars,
                 builderVars, liveVars, junk>>

ToBuffer ==
  /\ pc = "sized"
  /\ out' = Transaction_toBuffer(tx, junk)
  /\ pc' = "written"
  /\ UNCHANGED <<wire, enc, tx, blen, txid, sigVars, blockVars, powVars,
                 builderVars, liveVars, junk>>

GetHash ==
  /\ pc = "written"
  /\ txid' = Transaction_getHash(tx, junk)
  /\ pc' = "done"
  /\ UNCHANGED <<wire, enc, tx, out, blen, sigVars, blockVars, powVars,
                 builderVars, liveVars, junk>>

NextCodec == FromBuffer \/ ByteLength \/ ToBuffer \/ GetHash

SpecCodec == InitCodec /\ [][NextCodec]_vars

(***************************************************************************)
(* Claims on the transaction codec.                                        *)
(***************************************************************************)
Serialized == pc \in {"written", "done"}

\* Every CompactSize of the transaction image b is in its minimal width.
MinimalImage(b) == Transaction_read(b).r.canon

\* C1 as stated: whatever strict fromBuffer accepts, toBuffer() of the
\* parsed transaction gives back byte for byte.
C1_RoundTripAnyEncoding ==
  Serialized => out.ok /\ out.buffer = wire

\* C1 amended: an accepted image whose CompactSize fields are all in their
\* minimal width is given back byte for byte by toBuffer().
C1_RoundTripMinimal ==
  (Serialized /\ MinimalImage(wire)) => out.ok /\ out.buffer = wire

C1_Witness ==
  /\ pc = "written" /\ MinimalImage(wire) /\ out.buffer = wire
  /\ tx.version >= 2 /\ Len(tx.ins) = 2 /\ Len(tx.outs) = 2
  /\ Len(tx.ins[2].script) = 253 /\ Len(tx.time) = 5

\* C2: byteLength() is the number of bytes toBuffer() writes, and the
\* length of the buffer it returns.
C2_ByteLengthIsWritten ==
  Serialized => out.ok /\ out.offset = blen /\ Len(out.buffer) = blen

C2_Witness ==
  /\ pc = "written" /\ out.offset = blen
  /\ tx.version >= 2 /\ Len(tx.ins) = 2 /\ Len(tx.outs) = 1
  /\ Len(tx.ins[1].script) = 253 /\ Len(tx.outs[1].script) = 252

\* C6: getHash() is 32 zero bytes exactly for a transaction with a single
\* input whose prevHash is all zero, and the double hash of the whole
\* serialization otherwise; the example transaction parses to version 2,
\* one all-zero-prevHash input, one output, and hashes to zero.
C6_GetHash ==
  pc = "done" =>
    /\ (txid = Rep(32, 0)) <=> (Len(tx.ins) = 1 /\ tx.ins[1].hash = Rep(32, 0))
    /\ txid # Rep(32, 0) => txid = hash256(out.buffer)
    /\ enc = "example" =>
         /\ tx.version = 2 /\ tx.time = <<146, 217, 25, 98>>
         /\ Len(tx.ins) = 1 /\ Len(tx.outs) = 1
         /\ tx.ins[1].hash = Rep(32, 0)
         /\ txid = Rep(32, 0)

C6_Witness ==
  pc = "done" /\ enc = "example" /\ txid = Rep(32, 0) /\ out.buffer = wire

(***************************************************************************)
(* Signing scenario: hashForSignature is called, any number of times, on a *)
(* live transaction stx; every call is repeated on twin, which has the     *)
(* version, time, locktime and inputs of stx and other outputs.            *)
(***************************************************************************)
SigIn(k) ==
  [hash |-> Rep(32, k), index |-> <<k>>, script |-> <<k, 172>>,
   sequence |-> IF k % 2 = 1 THEN DEFAULT_SEQUENCE ELSE <<k>>]

SigOut(k) == [value |-> <<k, 1>>, script |-> <<118, k>>]

FirstIns(n) == [k \in 1..n |-> SigIn(k)]
FirstOuts(n) == [k \in 1..n |-> SigOut(k)]

OtherOuts(outs) ==
  { <<>>,
    << [value |-> <<9>>, script |-> EMPTY_SCRIPT] >>,
    <<SigOut(7)>> \o outs }

PrevOutScripts == { <<118, 171, 172>>, <<1, 171, 172, 171>> }

LockScript == <<118, 171, 172>>

HashTypes == {0, 1, 2, 3, 129, 130, 131, 34}

InitSig ==
  /\ \E v \in {1, 2}, ni \in 0..MaxIns, no \in 0..MaxOuts :
       /\ stx = [version |-> v, time |-> <<146, 217, 25, 98>>,
                 locktime |-> <<5>>, ins |-> FirstIns(ni),
                 outs |-> FirstOuts(no)]
       /\ \E o \in OtherOuts(FirstOuts(no)) : twin = [stx EXCEPT !.outs = o]
  /\ call = None
  /\ digest = None
  /\ digest2 = None
  /\ junk \in UnsafeFill
  /\ pc = "idle"
  /\ IdleCodec
  /\ IdleBlock
  /\ IdlePow
  /\ IdleBuilder
  /\ IdleLive

HashForSignature ==
  /\ pc \in {"idle", "hashed"}
  /\ \E inIndex \in 0..MaxIns, s \in PrevOutScripts, h \in HashTypes :
       /\ call' = [inIndex |-> inIndex, prevOutScript |-> s, hashType |-> h]
       /\ digest' = hashForSignature(stx, inIndex, s, h, junk)
       /\ digest2' = hashForSignature(twin, inIndex, s, h, junk)
  /\ pc' = "hashed"
  /\ UNCHANGED <<stx, twin, codecVars, blockVars, powVars, builderVars,
                 liveVars, junk>>

NextSig == HashForSignature

SpecSig == InitSig /\ [][NextSig]_vars

(***************************************************************************)
(* Claims on hashForSignature.                                             *)
(***************************************************************************)
\* The clone the specification describes for input i (from 0), lock script
\* s and hashType h, with a blanked output given as the value 2^64 - 1.
SpecOutputs(t, i, h) ==
  IF h % 32 = 2 THEN <<>>
  ELSE IF h % 32 = 3
  THEN [k \in 1..(i + 1) |->
          IF k = i + 1 THEN t.outs[k]
          ELSE [value |-> Rep(8, 255), script |-> <<>>]]
  ELSE t.outs

SpecInputs(t, i, s, h) ==
  LET own == [t.ins[i + 1] EXCEPT !.script = withoutCodeSeparators(s)]
      other(k) == [t.ins[k] EXCEPT
                     !.script = <<>>,
                     !.sequence = IF h % 32 \in {2, 3} THEN <<>> ELSE @]
  IN  IF h >= 128 THEN <<own>>
      ELSE [k \in 1..Len(t.ins) |-> IF k = i + 1 THEN own ELSE other(k)]

SpecDigest(t, i, s, h) ==
  IF i >= Len(t.ins) \/ (h % 32 = 3 /\ i >= Len(t.outs))
  THEN Rep(31, 0) \o <<1>>
  ELSE hash256(WireTx([t EXCEPT !.ins = SpecInputs(t, i, s, h),
                                !.outs = SpecOutputs(t, i, h)], "w1")
               \o <<h, 0, 0, 0>>)

\* C3: hashForSignature returns 0x00..01 when inIndex >= ins.length, and
\* when hashType & 0x1f is SINGLE and inIndex >= outs.length; otherwise the
\* double hash of the modified clone's serialization followed by hashType
\* as a 32-bit little-endian trailer.
C3_SignatureHash ==
  pc = "hashed" =>
    /\ digest = SpecDigest(stx, call.inIndex, call.prevOutScript, call.hashType)
    /\ digest2 = SpecDigest(twin, call.inIndex, call.prevOutScript, call.hashType)

C3_Witness ==
  /\ pc = "hashed" /\ call.hashType = 3 /\ call.inIndex = 1
  /\ Len(stx.ins) = 2 /\ Len(stx.outs) = 2 /\ Len(twin.outs) = 0
  /\ digest # ONE /\ digest2 = ONE
  /\ digest = SpecDigest(stx, 1, call.prevOutScript, 3)

\* C4: with hashType & 0x1f = NONE, with or without ANYONECANPAY, two
\* transactions that differ only in their outputs get the same digest for
\* every valid input index and lock script.
C4_NoneIgnoresOutputs ==
  (pc = "hashed" /\ call.hashType % 32 = 2 /\ call.inIndex < Len(stx.ins))
    => digest = digest2

C4_Witness ==
  /\ pc = "hashed" /\ call.hashType = 130 /\ call.inIndex = 1
  /\ Len(stx.ins) = 2 /\ Len(stx.outs) = 2 /\ Len(twin.outs) = 3
  /\ digest = digest2 /\ digest # ONE

(***************************************************************************)
(* Block scenario: Block.fromBuffer on a block image, then toBuffer(),     *)
(* toBuffer(true) and calculateMerkleRoot on the parsed block.             *)
(***************************************************************************)
Header ==
  FromInt32(1) \o Rep(32, 7) \o Rep(32, 9) \o <<1, 2, 3, 4>>
    \o <<255, 255, 0, 29>> \o <<0, 0, 0, 128>>

BlockTxs ==
  { [version |-> 2, time |-> <<146, 217, 25, 98>>, locktime |-> <<>>,
     ins |-> << [hash |-> ZERO, index |-> Rep(4, 255), script |-> <<3, 228>>,
                 sequence |-> DEFAULT_SEQUENCE] >>,
     outs |-> << [value |-> <<167, 167, 78>>, script |-> <<172>>] >>],
    [version |-> 1, time |-> <<5>>, locktime |-> <<>>,
     ins |-> << [hash |-> Rep(32, 17), index |-> <<>>, script |-> <<>>,
                 sequence |-> <<1>>] >>,
     outs |-> << [value |-> <<1>>, script |-> <<118, 172>>] >>],
    [version |-> 1, time |-> <<6>>, locktime |-> <<9>>,
     ins |-> <<>>,
     outs |-> << [value |-> <<2>>, script |-> <<>>],
                 [value |-> <<3>>, script |-> <<81>>] >>] }

BlockModes == {"w1", "w3", "cut", "trail"}

RECURSIVE WireTxs(_, _)
WireTxs(txs, mode) ==
  IF txs = <<>> THEN <<>>
  ELSE WireTx(Head(txs), mode) \o WireTxs(Tail(txs), mode)

WireBlock(txs, mode) == Header \o EncodeCS(Len(txs), mode) \o WireTxs(txs, mode)

BlockImage(txs, mode) ==
  IF mode = "cut"
  THEN SubSeq(WireBlock(txs, "w1"), 1, Len(WireBlock(txs, "w1")) - 1)
  ELSE IF mode = "trail" THEN WireBlock(txs, "w1") \o <<0>>
  ELSE WireBlock(txs, mode)

InitBlock ==
  /\ \/ \E txs \in SeqsUpTo(BlockTxs, MaxTxs), m \in BlockModes :
          bwire = BlockImage(txs, m) /\ benc = m
     \/ bwire = Header /\ benc = "header"
     \/ bwire = SubSeq(Header, 1, 79) /\ benc = "short"
  /\ block = None
  /\ bout = None
  /\ bhead = None
  /\ root = None
  /\ junk \in UnsafeFill
  /\ pc = "start"
  /\ IdleCodec
  /\ IdleSig
  /\ IdlePow
  /\ IdleBuilder
  /\ IdleLive

BlockFromBuffer ==
  /\ pc = "start"
  /\ block' = Block_fromBuffer(bwire)
  /\ pc' = IF IsBlock(block') THEN "parsed" ELSE "rejected"
  /\ UNCHANGED <<bwire, benc, bout, bhead, root, codecVars, sigVars,
                 powVars, builderVars, liveVars, junk>>

BlockToBuffer ==
  /\ pc = "parsed"
  /\ bout' = Block_toBuffer(block, FALSE, junk)
  /\ pc' = "written"
  /\ UNCHANGED <<bwire, benc, block, bhead, root, codecVars, sigVars,
                 powVars, builderVars, liveVars, junk>>

BlockToBufferHeader ==
  /\ pc = "written"
  /\ bhead' = Block_toBuffer(block, TRUE, junk)
  /\ pc' = "headed"
  /\ UNCHANGED <<bwire, benc, block, bout, root, codecVars, sigVars,
                 powVars, builderVars, liveVars, junk>>

CalculateMerkleRoot ==
  /\ pc = "headed"
  /\ HasTransactions(block)
  /\ root' = calculateMerkleRoot(block.transactions, junk)
  /\ pc' = "done"
  /\ UNCHANGED <<bwire, benc, block, bout, bhead, codecVars, sigVars,
                 powVars, builderVars, liveVars, junk>>

NextBlock ==
  BlockFromBuffer \/ BlockToBuffer \/ BlockToBufferHeader \/ CalculateMerkleRoot

SpecBlock == InitBlock /\ [][NextBlock]_vars

\* The nodes of one tree level paired left to right, the last node of an
\* odd-length level paired with itself.
NextLevel(nodes) ==
  [k \in 1..((Len(nodes) + 1) \div 2) |->
     hash256(nodes[2 * k - 1]
             \o (IF 2 * k <= Len(nodes) THEN nodes[2 * k]
                 ELSE nodes[2 * k - 1]))]

RECURSIVE TreeRoot(_)
TreeRoot(nodes) ==
  IF Len(nodes) = 1 THEN nodes[1] ELSE TreeRoot(NextLevel(nodes))

ContentHash(t) == hash256(WireTx(t, "w1"))

IdentifierHash(t) ==
  IF Len(t.ins) = 1 /\ t.ins[1].hash = Rep(32, 0) THEN Rep(32, 0)
  ELSE ContentHash(t)

MerkleRootOf(txs, Leaf(_)) ==
  IF txs = <<>> THEN errorMerkleNoTxes
  ELSE [root |-> TreeRoot([k \in 1..Len(txs) |-> Leaf(txs[k])])]

\* C5 as stated: the leaves are the double hash of each transaction's
\* serialization.
C5_MerkleRootOfContentHashes ==
  pc = "done" => root = MerkleRootOf(block.transactions, ContentHash)

\* C5: calculateMerkleRoot fails with the zero-transactions error on an
\* empty list; otherwise it is the root of the bottom-up binary tree over
\* the transactions' identifier hashes (32 zero bytes for a coinbase
\* transaction, the double hash of the serialization for any other),
\* adjacent nodes paired left to right and the last node of an odd-length
\* level duplicated: one transaction gives its identifier hash, [A,B] gives
\* hash256(id(A) || id(B)).
C5_MerkleRootOfIdentifierHashes ==
  pc = "done" =>
    /\ root = MerkleRootOf(block.transactions, IdentifierHash)
    /\ Len(block.transactions) = 1 =>
         root = [root |-> Transaction_getHash(block.transactions[1], junk)]
    /\ Len(block.transactions) = 2 =>
         root = [root |-> hash256(IdentifierHash(block.transactions[1])
                                  \o IdentifierHash(block.transactions[2]))]

C5_Witness ==
  /\ pc = "done"
  /\ Len(block.transactions) = 3
  /\ isCoinbase(block.transactions[1])
  /\ ~isCoinbase(block.transactions[3])
  /\ root = [root |-> hash256(
               hash256(Rep(32, 0) \o IdentifierHash(block.transactions[2]))
               \o hash256(ContentHash(block.transactions[3])
                          \o ContentHash(block.transactions[3])))]

\* The block image read by a decoder that moves past each transaction by
\* the bytes the transaction occupies: the transactions, where the last
\* one ends, and whether every CompactSize had its minimal width.
RECURSIVE OccupiedTxs(_, _, _)
OccupiedTxs(buffer, offset, n) ==
  IF n = 0
  THEN [ok |-> TRUE, txs |-> <<>>, end |-> offset, canon |-> TRUE]
  ELSE LET p == Transaction_read(SubSeq(buffer, offset + 1, Len(buffer)))
       IN  IF ~p.r.ok
           THEN [ok |-> FALSE, txs |-> <<>>, end |-> offset, canon |-> FALSE]
           ELSE LET rest == OccupiedTxs(buffer, offset + p.r.offset, n - 1)
                IN  [ok |-> rest.ok, txs |-> <<p.tx>> \o rest.txs,
                     end |-> rest.end, canon |-> p.r.canon /\ rest.canon]

Occupied(buffer) ==
  LET c == readVarInt([BufferReader(buffer) EXCEPT !.offset = 80])
      t == OccupiedTxs(buffer, c.r.offset, c.v)
  IN  IF ~c.r.ok THEN [t EXCEPT !.ok = FALSE]
      ELSE [t EXCEPT !.canon = @ /\ c.r.canon]

HeaderOf(buffer) ==
  [version |-> ToInt32(SubSeq(buffer, 1, 4)),
   prevHash |-> SubSeq(buffer, 5, 36),
   merkleRoot |-> SubSeq(buffer, 37, 68),
   timestamp |-> Canon(SubSeq(buffer, 69, 72)),
   bits |-> Canon(SubSeq(buffer, 73, 76)),
   nonce |-> Canon(SubSeq(buffer, 77, 80))]

\* C10 as stated: every accepted image is decoded transaction by
\* transaction as the bytes lie and is what toBuffer() gives back.
C10_BlockRoundTripAnyImage ==
  pc \in {"headed", "done"} =>
    /\ bout.ok /\ bout.buffer = bwire
    /\ Len(bwire) > 80 => block.transactions = Occupied(bwire).txs

\* C10: Block.fromBuffer fails on fewer than 80 bytes and returns a
\* header-only block on exactly 80 bytes; on a longer image whose
\* CompactSize fields all have their minimal width it decodes the count and
\* that many transactions back to back, and if the image ends with the last
\* transaction toBuffer() gives the image back; toBuffer(true) of any
\* parsed block is the first 80 bytes of its image.
C10_BlockRoundTripMinimal ==
  /\ pc # "start" =>
       /\ Len(bwire) < 80 => ~IsBlock(block)
       /\ Len(bwire) = 80 => block = HeaderOf(bwire)
       /\ (Len(bwire) > 80 /\ Occupied(bwire).ok /\ Occupied(bwire).canon) =>
            block = [transactions |-> Occupied(bwire).txs] @@ HeaderOf(bwire)
  /\ pc \in {"headed", "done"} =>
       /\ bhead.ok /\ bhead.buffer = SubSeq(bwire, 1, 80)
       /\ Len(bwire) = 80 => bout.ok /\ bout.buffer = bwire
       /\ ( /\ Len(bwire) > 80
            /\ Occupied(bwire).ok /\ Occupied(bwire).canon
            /\ Occupied(bwire).end = Len(bwire) ) =>
            bout.ok /\ bout.buffer = bwire

C10_Witness ==
  /\ pc = "done"
  /\ benc = "w1"
  /\ Len(block.transactions) = 3
  /\ block.transactions[1] # block.transactions[2]
  /\ bout.buffer = bwire
  /\ bhead.buffer = Header

(***************************************************************************)
(* Proof-of-work scenario: checkProofOfWork on a block whose bits field    *)
(* and whose header hash are drawn from samples around the targets.        *)
(***************************************************************************)
Mantissas == { <<255, 255, 0>>, <<0, 0, 128>>, <<1, 2, 127>>, <<0, 0, 255>> }

Exponents == {0, 2, 3, 4, 29, 32, 33, 128, 255}

BitsSamples == { Canon(m \o <<e>>) : m \in Mantissas, e \in Exponents }

Positions == {1, 3, 4, 28, 30, 32}

HashSamples ==
  LET around == { reverseBuffer(calculateTarget(n).target) :
                    n \in { x \in BitsSamples : Pad(x, 4)[4] \in 3..32 } }
  IN  around \cup { [h EXCEPT ![p] = v] :
                      h \in around, p \in Positions, v \in {0, 1, 255} }

InitPow ==
  /\ bits \in BitsSamples
  /\ hash \in HashSamples
  /\ pow = None
  /\ junk = None
  /\ pc = "start"
  /\ IdleCodec
  /\ IdleSig
  /\ IdleBlock
  /\ IdleBuilder
  /\ IdleLive

CheckProofOfWork ==
  /\ pc = "start"
  /\ pow' = checkProofOfWork(bits, hash)
  /\ pc' = "checked"
  /\ UNCHANGED <<bits, hash, codecVars, sigVars, blockVars, builderVars,
                 liveVars, junk>>

NextPow == CheckProofOfWork

SpecPow == InitPow /\ [][NextPow]_vars

\* The bytes of the 32-byte big-endian buffer that has the three mantissa
\* bytes at offset 29 - (exponent - 3) and zero elsewhere; index 0 is the
\* most significant byte.
SpecTargetByte(n, i) ==
  LET b == Pad(n, 4)
      at == 29 - (b[4] - 3)
  IN  IF i = at THEN b[3] % 128
      ELSE IF i = at + 1 THEN b[2]
      ELSE IF i = at + 2 THEN b[1]
      ELSE 0

\* The borrow out of the k least significant bytes of target - hash, the
\* hash byte-reversed and read big-endian, that is, read little-endian.
RECURSIVE Borrow(_, _, _)
Borrow(n, h, k) ==
  IF k = 0 THEN 0
  ELSE IF SpecTargetByte(n, 32 - k) - h[k] - Borrow(n, h, k - 1) < 0 THEN 1
  ELSE 0

HashAtMostTarget(n, h) == Borrow(n, h, 32) = 0

ExponentInRange(n) == Pad(n, 4)[4] \in 3..32

\* C7 as stated: for every value of bits the result is the comparison.
C7_PowAnyBits ==
  pc = "checked" => pow = [valid |-> HashAtMostTarget(bits, hash)]

\* C7: when the top byte of bits is in 3..32, checkProofOfWork() is true
\* exactly when the header hash, byte-reversed and read as a big-endian
\* unsigned 256-bit integer, is <= the target whose 32-byte big-endian
\* buffer holds the 23-bit mantissa at offset 29 - (exponent - 3); for any
\* other top byte the mantissa does not fit the buffer and the call throws
\* a RangeError.
C7_PowExponentInRange ==
  pc = "checked" =>
    IF ExponentInRange(bits)
    THEN pow = [valid |-> HashAtMostTarget(bits, hash)]
    ELSE pow = [error |-> "RangeError"]

C7_Witness ==
  /\ pc = "checked"
  /\ bits = <<255, 255, 0, 29>>
  /\ hash = Rep(26, 0) \o <<255, 255>> \o Rep(4, 0)
  /\ pow = [valid |-> TRUE]

(***************************************************************************)
(* Builder scenario: any sequence of addInput, addOutput and sign calls on *)
(* a new TransactionBuilder.  Every addInput names a previous output not   *)
(* named before.                                                           *)
(***************************************************************************)
SignHashTypes ==
  { SIGHASH_ALL, SIGHASH_NONE, SIGHASH_SINGLE,
    SIGHASH_ANYONECANPAY + SIGHASH_ALL, SIGHASH_ANYONECANPAY + SIGHASH_NONE,
    SIGHASH_ANYONECANPAY + SIGHASH_SINGLE }

RECURSIVE CountSigs(_)
CountSigs(inputs) ==
  IF inputs = <<>> THEN 0
  ELSE Len(Head(inputs).signatures) + CountSigs(Tail(inputs))

InitBuilder ==
  /\ builder = NewBuilder
  /\ last = [op |-> "new", pre |-> NewBuilder, ok |-> TRUE, result |-> 0]
  /\ junk = None
  /\ pc = "building"
  /\ IdleCodec
  /\ IdleSig
  /\ IdleBlock
  /\ IdlePow
  /\ IdleLive

Called(op, x) ==
  /\ builder' = x.b
  /\ last' = [op |-> op, pre |-> builder, ok |-> x.ok, result |-> x.result]
  /\ UNCHANGED <<codecVars, sigVars, blockVars, powVars, liveVars, junk, pc>>

AddInput ==
  /\ Len(builder.ins) < MaxIns
  /\ Called("addInput",
            addInput(builder, Rep(32, 17), FromInt32(Len(builder.ins))))

AddOutput ==
  /\ Len(builder.outs) < MaxOuts
  /\ Called("addOutput",
            addOutput(builder, <<118, 172>>, <<Len(builder.outs) + 1>>))

Sign ==
  /\ CountSigs(builder.inputs) < MaxSigs
  /\ \E vin \in 0..MaxIns, hashType \in SignHashTypes,
        signerFails \in BOOLEAN :
       Called("sign", sign(builder, vin, hashType, signerFails))

NextBuilder == AddInput \/ AddOutput \/ Sign

SpecBuilder == InitBuilder /\ [][NextBuilder]_vars

\* The signatures applied to the transaction of builder b, as pairs of
\* input index and hash type.
Applied(b) ==
  { <<y[1] - 1, b.inputs[y[1]].signatures[y[2]]>> :
      y \in { z \in (1..Len(b.inputs)) \X (1..MaxSigs) :
                z[2] <= Len(b.inputs[z[1]].signatures) } }

HasAnyoneCanPay(h) == h >= 128

\* C8: addOutput is rejected if some applied signature has hashType & 0x1f
\* = ALL, or = SINGLE on an input whose index is >= the position the new
\* output would take; it is accepted, returning the new output's index,
\* when every applied signature is NONE or is SINGLE on an input index
\* below that position.
C8_AddOutput ==
  last.op = "addOutput" =>
    LET position == Len(last.pre.outs)
        blocked == \E x \in Applied(last.pre) :
                     \/ x[2] % 32 = 1
                     \/ x[2] % 32 = 3 /\ x[1] >= position
        free == \A x \in Applied(last.pre) :
                  \/ x[2] % 32 = 2
                  \/ x[2] % 32 = 3 /\ x[1] < position
    IN  /\ blocked => ~last.ok
        /\ free => /\ last.ok
                   /\ last.result = position
                   /\ Len(builder.outs) = position + 1
                   /\ SubSeq(builder.outs, 1, position) = last.pre.outs

C8_Witness ==
  /\ last.op = "addOutput"
  /\ last.ok
  /\ last.result = 1
  /\ <<0, 3>> \in Applied(last.pre)
  /\ <<1, 130>> \in Applied(last.pre)

\* C9: addInput is rejected if and only if some applied signature has a
\* hashType without the ANYONECANPAY bit; an accepted addInput returns the
\* new input's index; a rejected addInput or addOutput leaves the builder's
\* transaction and recorded signatures as they were.
C9_AddInput ==
  /\ last.op = "addInput" =>
       /\ ~last.ok <=> \E x \in Applied(last.pre) : ~HasAnyoneCanPay(x[2])
       /\ last.ok =>
            /\ last.result = Len(last.pre.ins)
            /\ Len(builder.ins) = Len(last.pre.ins) + 1
            /\ SubSeq(builder.ins, 1, Len(last.pre.ins)) = last.pre.ins
            /\ Applied(builder) = Applied(last.pre)
  /\ (last.op \in {"addInput", "addOutput"} /\ ~last.ok) =>
       builder = last.pre

C9_Witness ==
  /\ last.op = "addInput"
  /\ last.ok
  /\ last.result = 1
  /\ <<0, 129>> \in Applied(last.pre)
  /\ Len(builder.outs) = 1

(***************************************************************************)
(* Live-transaction scenario: a transaction is built as objects on a heap  *)
(* and hashForSignature is called on it any number of times; the objects   *)
(* no reference leads to any more are dropped after each call.             *)
(***************************************************************************)
ThisRef == Len(ModuleHeap) + 1

\* The objects of a transaction with the fields of t: the Transaction, its
\* two arrays, then per input the input and its two Buffers, then per
\* output the output and its Buffer.
InRef(t, k) == ThisRef + 3 * k
OutRef(t, k) == ThisRef + 3 * Len(t.ins) + 2 * k + 1

RECURSIVE InObjects(_, _)
InObjects(t, k) ==
  IF k > Len(t.ins) THEN <<>>
  ELSE << [hash |-> InRef(t, k) + 1, index |-> t.ins[k].index,
           script |-> InRef(t, k) + 2, sequence |-> t.ins[k].sequence],
          [bytes |-> t.ins[k].hash],
          [bytes |-> t.ins[k].script] >> \o InObjects(t, k + 1)

RECURSIVE OutObjects(_, _)
OutObjects(t, k) ==
  IF k > Len(t.outs) THEN <<>>
  ELSE << [script |-> OutRef(t, k) + 1, value |-> t.outs[k].value],
          [bytes |-> t.outs[k].script] >> \o OutObjects(t, k + 1)

MakeHeap(t) ==
  ModuleHeap
    \o << [version |-> t.version, time |-> t.time, locktime |-> t.locktime,
           ins |-> ThisRef + 1, outs |-> ThisRef + 2],
          [items |-> [k \in 1..Len(t.ins) |-> InRef(t, k)]],
          [items |-> [k \in 1..Len(t.outs) |-> OutRef(t, k)]] >>
    \o InObjects(t, 1) \o OutObjects(t, 1)

LiveHashTypes ==
  { SIGHASH_ALL, SIGHASH_NONE, SIGHASH_SINGLE,
    SIGHASH_ANYONECANPAY + SIGHASH_ALL, SIGHASH_ANYONECANPAY + SIGHASH_NONE,
    SIGHASH_ANYONECANPAY + SIGHASH_SINGLE }

NoCall == [inIndex |-> -1, hashType |-> 0]

Earlier(c) == [inIndex |-> c.inIndex, hashType |-> c.hashType % 32]

InitLive ==
  /\ \E v \in {1, 2}, ni \in 0..MaxIns, no \in 0..MaxOuts :
       made = [version |-> v, time |-> <<146, 217, 25, 98>>,
               locktime |-> <<5>>, ins |-> FirstIns(ni),
               outs |-> FirstOuts(no)]
  /\ heap = MakeHeap(made)
  /\ this = ThisRef
  /\ prior = NoCall
  /\ hcall = NoCall
  /\ hdigest = None
  /\ junk \in UnsafeFill
  /\ pc = "live"
  /\ IdleCodec
  /\ IdleSig
  /\ IdleBlock
  /\ IdlePow
  /\ IdleBuilder

Returned(m) ==
  /\ heap' = Collect(m.h, ModuleRefs \cup {this})
  /\ hdigest' = m.ret
  /\ hcall' = [inIndex |-> m.inIndex, hashType |-> m.hashType]
  /\ prior' = Earlier(hcall)
  /\ pc' = "called"
  /\ UNCHANGED <<this, made, codecVars, sigVars, blockVars, powVars,
                 builderVars, junk>>

HashForSignatureLive ==
  /\ pc \in {"live", "called"}
  /\ \E inIndex \in 0..MaxIns, hashType \in LiveHashTypes :
       Returned(SighashRun(SighashStart(heap, this, inIndex, LockScript,
                                        hashType, junk)))

NextLive == HashForSignatureLive

SpecLive == InitLive /\ [][NextLive]_vars

\* C11: after any sequence of hashForSignature calls the live transaction
\* reads as it was made (version, time, locktime, every input's prevHash,
\* prevIndex, script and sequence, every output's script and value), so
\* its serialization is the one of the transaction as made, and every
\* digest, one for another input than the call before included, is the
\* digest of the transaction as made.
C11_LiveTransactionUnchanged ==
  pc = "called" =>
    /\ View(heap, this) = made
    /\ Transaction_toBuffer(View(heap, this), junk)
         = Transaction_toBuffer(made, junk)
    /\ hdigest = SpecDigest(made, hcall.inIndex, LockScript, hcall.hashType)

C11_Witness ==
  /\ pc = "called"
  /\ Len(made.ins) = 2 /\ Len(made.outs) = 2
  /\ prior = [inIndex |-> 0, hashType |-> SIGHASH_SINGLE]
  /\ hcall = [inIndex |-> 1, hashType |-> SIGHASH_ALL]
  /\ View(heap, this).ins[2].sequence = SigIn(2).sequence
  /\ View(heap, this).ins[1].script = SigIn(1).script
  /\ hdigest = SpecDigest(made, 1, LockScript, SIGHASH_ALL)
  /\ hdigest # ONE

=============================================================================
